---- MODULE Spec2Model ----
(***************************************************************************)
(* A model of the PID controller of DriveByWireECU/PID.c.                  *)
(*                                                                         *)
(* The controller (struct PIDController) is the record c.  Every public    *)
(* function of PID.c is an operator from a controller record to the        *)
(* controller record it leaves behind, and an action that applies it.      *)
(* The callbacks (pidSource, getSystemTime, pidOutput) are the             *)
(* environment: what the sources return is chosen with \E, and what was    *)
(* invoked by the most recent operation is recorded in calls.              *)
(*                                                                         *)
(* Arithmetic is the arithmetic of C on int and long in the range where    *)
(* no overflow occurs: every value of the model stays far below the width  *)
(* of int.  The gains (double) are multiples of 1/GainDen, so that every   *)
(* product and sum of tick's output expression is exact.                   *)
(***************************************************************************)
EXTENDS Integers, Sequences, FiniteSets, TLC

VARIABLES
    c,          \* the PIDController record
    op,         \* the most recent operation: the constructor, tick or a
                \* configuration call
    calls,      \* the callbacks the most recent operation invoked, in order
    divByZero,  \* the most recent operation divided by a zero deltaTime
    halted,     \* a trap terminated the program
    nullWrite   \* the constructor wrote through the null pointer that malloc
                \* returned

vars == <<c, op, calls, divByZero, halted, nullWrite>>

---------------------------------------------------------------------------
(* Bounds of the model. *)

MaxTime == 1
MaxCumArg == 2
MaxIntegral == 3
MaxWrap == 3

(* Program constants. *)

InitMaxCumulation == 30000
GainDen == 2

\* The arguments of the bound setters: the pairs over BoundVals are one
\* valid pair, one with upper = lower twice over, and one with upper < lower.
BoundVals == {0, 1}

\* What pidSource returns: values below, inside and above the bounds.
Feedbacks == {-1, 0, 1, 2}

\* The target stays the constructor's 0 unless the host assigns it; the
\* specification of the wrapped mode varies it.
Targets == {0}

\* What getSystemTime returns, and the arguments of
\* setMaxIntegralCumulation.
Times == 0..MaxTime
CumArgs == -MaxCumArg..MaxCumArg

\* The gains given to the constructor, in units of 1/GainDen.
GainTriples == {<<1, 2, 2>>}

\* What a field that createPIDController never assigns may hold.
Uninit == {0, 1}

\* What an integer division by zero yields on a build where it does not trap.
DivZeroValues == {-1, 0}

---------------------------------------------------------------------------
(* C arithmetic. *)

Abs(x) == IF x >= 0 THEN x ELSE -x

\* C's integer division, which truncates toward zero (b # 0).
TruncDiv(a, b) ==
    IF (a >= 0) = (b > 0)
    THEN Abs(a) \div Abs(b)
    ELSE -(Abs(a) \div Abs(b))

---------------------------------------------------------------------------
(* createPIDController.  mem is the content malloc left in the fields the  *)
(* constructor never assigns.                                              *)

createPIDController(p, i, d, mem) ==
    [ p |-> p, i |-> i, d |-> d,
      target |-> 0,
      output |-> 0,
      enabled |-> TRUE,
      currentFeedback |-> 0,
      lastFeedback |-> 0,
      error |-> mem.error,
      lastError |-> 0,
      currentTime |-> 0,
      lastTime |-> 0,
      integralCumulation |-> 0,
      maxCumulation |-> InitMaxCumulation,
      cycleDerivative |-> mem.cycleDerivative,
      inputBounded |-> FALSE,
      inputLowerBound |-> 0,
      inputUpperBound |-> 0,
      outputBounded |-> FALSE,
      outputLowerBound |-> 0,
      outputUpperBound |-> 0,
      feedbackWrapped |-> mem.feedbackWrapped,
      feedbackWrapLowerBound |-> mem.feedbackWrapLowerBound,
      feedbackWrapUpperBound |-> mem.feedbackWrapUpperBound,
      timeFunctionRegistered |-> FALSE ]

UninitMemory ==
    [ error : Uninit,
      cycleDerivative : Uninit,
      feedbackWrapped : BOOLEAN,
      feedbackWrapLowerBound : Uninit,
      feedbackWrapUpperBound : Uninit ]

\* Memory that happens to be zeroed.
ZeroMemory ==
    [ error |-> 0, cycleDerivative |-> 0, feedbackWrapped |-> FALSE,
      feedbackWrapLowerBound |-> 0, feedbackWrapUpperBound |-> 0 ]

---------------------------------------------------------------------------
(* tick, stage by stage.                                                   *)

\* A tick that does not look at the enabled flag.
tickRunsAlways(k) == TRUE

\* if(c->enabled)
tickRuns(k) == k.enabled

\* c->currentFeedback = c->pidSource(), then the input bounds.
SampleFeedback(k, fb) ==
    LET f1 == IF k.inputBounded /\ fb > k.inputUpperBound
              THEN k.inputUpperBound ELSE fb
        f2 == IF k.inputBounded /\ f1 < k.inputLowerBound
              THEN k.inputLowerBound ELSE f1
    IN  [k EXCEPT !.currentFeedback = f2]

\* The three candidate errors of the wrapped mode.
RegErr(k) == k.target - k.currentFeedback
AltErr1(k) ==
    (k.target - k.feedbackWrapLowerBound)
        + (k.feedbackWrapUpperBound - k.currentFeedback)
AltErr2(k) ==
    (k.feedbackWrapUpperBound - k.target)
        + (k.currentFeedback - k.feedbackWrapLowerBound)

\* A selection whose first branch is strict too: ties select nothing.
WrappedErrorStrict(k) ==
    LET regErr == RegErr(k)
        altErr1Abs == Abs(AltErr1(k))
        altErr2Abs == Abs(AltErr2(k))
        regErrAbs == Abs(regErr)
    IN  IF regErrAbs < altErr1Abs /\ regErr < altErr2Abs
        THEN regErr
        ELSE IF altErr1Abs < regErrAbs /\ altErr1Abs < altErr2Abs
        THEN altErr1Abs
        ELSE IF altErr2Abs < regErrAbs /\ altErr2Abs < altErr1Abs
        THEN altErr2Abs
        ELSE k.error

\* The if / else if / else if that selects among them; with no branch taken
\* c->error keeps the value it had.
WrappedError(k) ==
    LET regErr == RegErr(k)
        altErr1 == AltErr1(k)
        altErr2 == AltErr2(k)
        regErrAbs == Abs(regErr)
        altErr1Abs == Abs(altErr1)
        altErr2Abs == Abs(altErr2)
    IN  IF regErrAbs <= altErr1Abs /\ regErr <= altErr2Abs
        THEN regErr
        ELSE IF altErr1Abs < regErrAbs /\ altErr1Abs < altErr2Abs
        THEN altErr1Abs
        ELSE IF altErr2Abs < regErrAbs /\ altErr2Abs < altErr1Abs
        THEN altErr2Abs
        ELSE k.error

\* An error with its sign reversed.
ComputeErrorReversed(k) ==
    [k EXCEPT !.error = IF k.feedbackWrapped
                        THEN WrappedError(k)
                        ELSE k.currentFeedback - k.target]

ComputeError(k) ==
    [k EXCEPT !.error = IF k.feedbackWrapped
                        THEN WrappedError(k)
                        ELSE k.target - k.currentFeedback]

\* With a time source: the time is read and the cycle's integral is added.
DeltaTime(k, tm) == tm - k.lastTime

IntegrateTimed(k, tm) ==
    LET deltaTime == DeltaTime(k, tm)
        cycleIntegral == (k.lastError + TruncDiv(k.error, 2)) * deltaTime
    IN  [k EXCEPT !.currentTime = tm,
                  !.integralCumulation = @ + cycleIntegral]

\* (c->error - c->lastError) / deltaTime, for a deltaTime that is not zero.
TimedDerivative(k, deltaTime) == TruncDiv(k.error - k.lastError, deltaTime)

\* The derivative is stored and the time saved.
DeriveTimed(k, quotient) ==
    [k EXCEPT !.cycleDerivative = quotient, !.lastTime = k.currentTime]

\* Without a time source every tick counts as one unit of time.
IntegrateUntimed(k) ==
    [k EXCEPT !.integralCumulation = @ + k.error,
              !.cycleDerivative = k.error - k.lastError]

\* A clamp that forgets the lower limit.
ClampIntegralUpperOnly(k) ==
    [k EXCEPT !.integralCumulation =
        IF @ > k.maxCumulation THEN k.maxCumulation ELSE @]

ClampIntegral(k) ==
    LET i1 == IF k.integralCumulation > k.maxCumulation
              THEN k.maxCumulation ELSE k.integralCumulation
        i2 == IF i1 < -k.maxCumulation THEN -k.maxCumulation ELSE i1
    IN  [k EXCEPT !.integralCumulation = i2]

\* (int) of the sum of doubles: the fraction is discarded.
\* n / d rounded to the nearest integer, halves away from zero (d > 0).
RoundHalfAway(n, d) ==
    LET q == (2 * Abs(n) + d) \div (2 * d)
    IN  IF n < 0 THEN -q ELSE q

\* An output that is rounded to the nearest integer.
RawOutputRounded(k) ==
    RoundHalfAway(k.error * k.p + k.integralCumulation * k.i
                      + k.cycleDerivative * k.d, GainDen)

RawOutput(k) ==
    TruncDiv(k.error * k.p + k.integralCumulation * k.i
                 + k.cycleDerivative * k.d, GainDen)

ComputeOutput(k) == [k EXCEPT !.output = RawOutput(k)]

SaveHistory(k) ==
    [k EXCEPT !.lastFeedback = k.currentFeedback, !.lastError = k.error]

\* A trim that forgets the lower bound.
TrimOutputUpperOnly(k) ==
    [k EXCEPT !.output =
        IF k.outputBounded /\ @ > k.outputUpperBound
        THEN k.outputUpperBound ELSE @]

TrimOutput(k) ==
    LET o1 == IF k.outputBounded /\ k.output > k.outputUpperBound
              THEN k.outputUpperBound ELSE k.output
        o2 == IF k.outputBounded /\ o1 < k.outputLowerBound
              THEN k.outputLowerBound ELSE o1
    IN  [k EXCEPT !.output = o2]

\* From the integral clamp to the end of tick.
FinishTick(k) == TrimOutput(SaveHistory(ComputeOutput(ClampIntegral(k))))

\* tick up to the integral and derivative step.
BeginTick(k, fb) == ComputeError(SampleFeedback(k, fb))

\* An enabled tick without a time source, from the feedback fb.
UntimedTick(k, fb) == FinishTick(IntegrateUntimed(BeginTick(k, fb)))

---------------------------------------------------------------------------
(* The configuration functions. *)

\* A disable that forgets to reset the integral.
setEnabledKeepsIntegral(k, enabled) ==
    IF ~enabled /\ k.enabled
    THEN [k EXCEPT !.output = 0, !.enabled = enabled]
    ELSE [k EXCEPT !.enabled = enabled]

\* An enable that starts from a clean history.
setEnabledClearsHistory(k, enabled) ==
    IF ~enabled /\ k.enabled
    THEN [k EXCEPT !.output = 0, !.integralCumulation = 0, !.enabled = enabled]
    ELSE IF enabled /\ ~k.enabled
         THEN [k EXCEPT !.lastError = 0, !.lastFeedback = 0, !.lastTime = 0,
                        !.enabled = enabled]
         ELSE [k EXCEPT !.enabled = enabled]

\* A disable that forgets to reset the output.
setEnabledKeepsOutput(k, enabled) ==
    IF ~enabled /\ k.enabled
    THEN [k EXCEPT !.integralCumulation = 0, !.enabled = enabled]
    ELSE [k EXCEPT !.enabled = enabled]

setEnabled(k, enabled) ==
    IF ~enabled /\ k.enabled
    THEN [k EXCEPT !.output = 0, !.integralCumulation = 0, !.enabled = enabled]
    ELSE [k EXCEPT !.enabled = enabled]

\* A setter that accepts every positive limit.
setMaxIntegralCumulationPositive(k, max) ==
    LET m == IF max < 0 THEN -max ELSE max
    IN  IF m > 0 THEN [k EXCEPT !.maxCumulation = m] ELSE k

setMaxIntegralCumulation(k, max) ==
    LET m == IF max < 0 THEN -max ELSE max
    IN  IF m > 1 THEN [k EXCEPT !.maxCumulation = m] ELSE k

\* A setter that accepts upper = lower.
setInputBoundsNonStrict(k, lower, upper) ==
    IF upper >= lower
    THEN [k EXCEPT !.inputBounded = TRUE,
                   !.inputUpperBound = upper,
                   !.inputLowerBound = lower]
    ELSE k

setInputBounds(k, lower, upper) ==
    IF upper > lower
    THEN [k EXCEPT !.inputBounded = TRUE,
                   !.inputUpperBound = upper,
                   !.inputLowerBound = lower]
    ELSE k

setOutputBounds(k, lower, upper) ==
    IF upper > lower
    THEN [k EXCEPT !.outputBounded = TRUE,
                   !.outputLowerBound = lower,
                   !.outputUpperBound = upper]
    ELSE k

setFeedbackWrapBounds(k, lower, upper) ==
    [setInputBounds(k, lower, upper) EXCEPT
        !.feedbackWrapped = TRUE,
        !.feedbackWrapLowerBound = lower,
        !.feedbackWrapUpperBound = upper]

\* The host sets the target and registers its time source.
setTarget(k, target) == [k EXCEPT !.target = target]

registerTimeFunction(k) == [k EXCEPT !.timeFunctionRegistered = TRUE]

---------------------------------------------------------------------------
(* The operations as actions. *)

\* What the callbacks of a completed enabled tick were, in order.
TickCalls(k) ==
    IF k.timeFunctionRegistered
    THEN << <<"pidSource">>, <<"getSystemTime">>, <<"pidOutput", k.output>> >>
    ELSE << <<"pidSource">>, <<"pidOutput", k.output>> >>

\* The integral that tick leaves stays in the range the model covers.
InRange(k) == Abs(ClampIntegral(k).integralCumulation) <= MaxIntegral

TickDisabled ==
    /\ ~halted
    /\ ~tickRuns(c)
    /\ c' = c
    /\ op' = "tick"
    /\ calls' = <<>>
    /\ divByZero' = FALSE
    /\ UNCHANGED <<halted, nullWrite>>

TickUntimed(F) ==
    /\ ~halted
    /\ tickRuns(c)
    /\ ~c.timeFunctionRegistered
    /\ \E fb \in F :
         LET k == IntegrateUntimed(BeginTick(c, fb))
         IN  /\ InRange(k)
             /\ c' = FinishTick(k)
    /\ op' = "tick"
    /\ calls' = TickCalls(c')
    /\ divByZero' = FALSE
    /\ UNCHANGED <<halted, nullWrite>>

TickTimed(F, T) ==
    /\ ~halted
    /\ tickRuns(c)
    /\ c.timeFunctionRegistered
    /\ \E fb \in F, tm \in T :
         LET k == IntegrateTimed(BeginTick(c, fb), tm)
             deltaTime == DeltaTime(c, tm)
         IN  /\ deltaTime # 0
             /\ InRange(k)
             /\ c' = FinishTick(DeriveTimed(k, TimedDerivative(k, deltaTime)))
    /\ op' = "tick"
    /\ calls' = TickCalls(c')
    /\ divByZero' = FALSE
    /\ UNCHANGED <<halted, nullWrite>>

\* deltaTime is zero and the division yields some value: tick goes on.
TickDivZeroValue(F, T) ==
    /\ ~halted
    /\ tickRuns(c)
    /\ c.timeFunctionRegistered
    /\ \E fb \in F, tm \in T, q \in DivZeroValues :
         LET k == IntegrateTimed(BeginTick(c, fb), tm)
         IN  /\ DeltaTime(c, tm) = 0
             /\ InRange(k)
             /\ c' = FinishTick(DeriveTimed(k, q))
    /\ op' = "tick"
    /\ calls' = TickCalls(c')
    /\ divByZero' = TRUE
    /\ UNCHANGED <<halted, nullWrite>>

\* deltaTime is zero and the division traps: the program ends inside tick.
TickDivZeroTrap(F, T) ==
    /\ ~halted
    /\ tickRuns(c)
    /\ c.timeFunctionRegistered
    /\ \E fb \in F, tm \in T :
         LET k == IntegrateTimed(BeginTick(c, fb), tm)
         IN  /\ DeltaTime(c, tm) = 0
             /\ InRange(k)
             /\ c' = k
    /\ op' = "tick"
    /\ calls' = << <<"pidSource">>, <<"getSystemTime">> >>
    /\ divByZero' = TRUE
    /\ halted' = TRUE
    /\ UNCHANGED nullWrite

Tick ==
    \/ TickDisabled
    \/ TickUntimed(Feedbacks)
    \/ TickTimed(Feedbacks, Times)
    \/ TickDivZeroValue(Feedbacks, Times)
    \/ TickDivZeroTrap(Feedbacks, Times)

\* A call that returns the controller k and invokes no callback.
Returns(k) ==
    /\ ~halted
    /\ c' = k
    /\ op' = "configure"
    /\ calls' = <<>>
    /\ divByZero' = FALSE
    /\ UNCHANGED <<halted, nullWrite>>

SetEnabled == \E e \in BOOLEAN : Returns(setEnabled(c, e))

SetMaxIntegralCumulation ==
    \E m \in CumArgs : Returns(setMaxIntegralCumulation(c, m))

SetInputBounds ==
    \E lo \in BoundVals, hi \in BoundVals : Returns(setInputBounds(c, lo, hi))

SetOutputBounds ==
    \E lo \in BoundVals, hi \in BoundVals : Returns(setOutputBounds(c, lo, hi))

SetFeedbackWrapBounds ==
    \E lo \in BoundVals, hi \in BoundVals :
        Returns(setFeedbackWrapBounds(c, lo, hi))

SetTarget == \E t \in Targets : Returns(setTarget(c, t))

RegisterTimeFunction == Returns(registerTimeFunction(c))

---------------------------------------------------------------------------
(* The program: a controller is created and then used in any way. *)

Created(k) ==
    /\ c = k
    /\ op = "createPIDController"
    /\ calls = <<>>
    /\ divByZero = FALSE
    /\ halted = FALSE
    /\ nullWrite = FALSE

Init ==
    \E g \in GainTriples, mem \in UninitMemory :
        Created(createPIDController(g[1], g[2], g[3], mem))

Next ==
    \/ Tick
    \/ SetEnabled
    \/ SetMaxIntegralCumulation
    \/ SetInputBounds
    \/ SetOutputBounds
    \/ SetFeedbackWrapBounds
    \/ SetTarget
    \/ RegisterTimeFunction

Spec == Init /\ [][Next]_vars

---------------------------------------------------------------------------
(* Properties of the program. *)

\* The most recent operation was an enabled tick that ran to its end.
TickCompleted ==
    /\ op = "tick"
    /\ Len(calls) > 0
    /\ calls[Len(calls)][1] = "pidOutput"

\* The value the output sink received in a completed tick.
SinkValue == calls[Len(calls)][2]

\* C1: a tick of a disabled controller invokes no callback and changes no
\* field of the controller.
DisabledTickIsNoOp ==
    [][(op' = "tick" /\ ~c.enabled) => (c' = c /\ calls' = <<>>)]_vars

\* A tick has just been made on a disabled controller that had ticked before.
DisabledTickWitness ==
    /\ op = "tick"
    /\ ~c.enabled
    /\ calls = <<>>
    /\ c.lastError # 0

\* C2: after every enabled tick that ran to its end, in either mode and
\* whatever setMaxIntegralCumulation set in between, the integral lies in
\* [-maxCumulation, maxCumulation].
IntegralWithinMax ==
    TickCompleted =>
        /\ -c.maxCumulation <= c.integralCumulation
        /\ c.integralCumulation <= c.maxCumulation

\* A timed tick has left the integral at a limit that
\* setMaxIntegralCumulation set.
IntegralClampedWitness ==
    /\ TickCompleted
    /\ c.timeFunctionRegistered
    /\ c.maxCumulation # InitMaxCumulation
    /\ c.integralCumulation = -c.maxCumulation

\* C3: after every enabled tick that ran to its end, a bounded feedback lies
\* in the input bounds, and a bounded output, and the value the sink
\* received, lie in the output bounds.
BoundsRespected ==
    TickCompleted =>
        /\ c.inputBounded =>
              /\ c.inputLowerBound <= c.currentFeedback
              /\ c.currentFeedback <= c.inputUpperBound
        /\ c.outputBounded =>
              /\ c.outputLowerBound <= c.output
              /\ c.output <= c.outputUpperBound
              /\ c.outputLowerBound <= SinkValue
              /\ SinkValue <= c.outputUpperBound

\* A tick has trimmed an output that was below the lower output bound, with
\* the feedback held at an input bound.
OutputTrimmedWitness ==
    /\ TickCompleted
    /\ c.inputBounded
    /\ c.outputBounded
    /\ c.currentFeedback = c.inputUpperBound
    /\ RawOutput(c) < c.outputLowerBound
    /\ c.output = c.outputLowerBound

\* C4: no tick divides by a deltaTime of zero.
NoDivisionByZero == ~divByZero

\* C5: disabling an enabled controller sets output and integralCumulation to
\* 0 and changes no other field but enabled.
DisableResets ==
    [][(op' = "configure" /\ c.enabled /\ ~c'.enabled) =>
          /\ c'.output = 0
          /\ c'.integralCumulation = 0
          /\ c' = [c EXCEPT !.output = 0, !.integralCumulation = 0,
                            !.enabled = FALSE]]_vars

\* A controller with a history of errors has just been disabled.
DisabledWitness ==
    /\ op = "configure"
    /\ ~c.enabled
    /\ c.output = 0
    /\ c.integralCumulation = 0
    /\ c.error # 0
    /\ c.lastError # 0

\* The input bounds are set and are the wrap bounds.
WrapIsInput(k) ==
    /\ k.inputBounded
    /\ k.inputLowerBound = k.feedbackWrapLowerBound
    /\ k.inputUpperBound = k.feedbackWrapUpperBound

\* C9: configuration calls keep the wrap bounds and the input bounds
\* together: if a wrapped controller had its input bounds at the wrap bounds
\* before a configuration call, or was not wrapped, then after the call it
\* is not wrapped or has its input bounds at the wrap bounds.
WrapBoundsAreInputBounds ==
    [][(op' = "configure" /\ (c.feedbackWrapped => WrapIsInput(c))) =>
          (c'.feedbackWrapped => WrapIsInput(c'))]_vars

\* C10: setInputBounds and setOutputBounds change nothing when upper <= lower
\* and otherwise set the flag and store the pair.
BoundSettersContract ==
    [][\A lo \in BoundVals, hi \in BoundVals :
          /\ Returns(setInputBounds(c, lo, hi)) =>
                c' = IF hi > lo
                     THEN [c EXCEPT !.inputBounded = TRUE,
                                    !.inputLowerBound = lo,
                                    !.inputUpperBound = hi]
                     ELSE c
          /\ Returns(setOutputBounds(c, lo, hi)) =>
                c' = IF hi > lo
                     THEN [c EXCEPT !.outputBounded = TRUE,
                                    !.outputLowerBound = lo,
                                    !.outputUpperBound = hi]
                     ELSE c]_vars

\* Both setters have stored a pair.
BoundsStoredWitness ==
    /\ op = "configure"
    /\ c.inputBounded
    /\ c.inputLowerBound < c.inputUpperBound
    /\ c.outputBounded
    /\ c.outputLowerBound < c.outputUpperBound

---------------------------------------------------------------------------
(* The wrapped mode on its own: a controller that was given a target, wrap *)
(* bounds and a small integral limit, and is then ticked.                  *)

WrapVals == 0..MaxWrap
WrapTargets == -1..MaxWrap
WrapFeedbacks == -1..MaxWrap

WrapConfigured(k, t, lo, hi) ==
    setMaxIntegralCumulation(
        setFeedbackWrapBounds(setTarget(k, t), lo, hi), MaxCumArg)

InitWrap ==
    \E g \in GainTriples, mem \in UninitMemory :
      \E t \in WrapTargets, lo \in WrapVals, hi \in WrapVals :
        /\ c = WrapConfigured(createPIDController(g[1], g[2], g[3], mem),
                              t, lo, hi)
        /\ op = "configure"
        /\ calls = <<>>
        /\ divByZero = FALSE
        /\ halted = FALSE
        /\ nullWrite = FALSE

NextWrap == TickUntimed(WrapFeedbacks)

SpecWrap == InitWrap /\ [][NextWrap]_vars

\* The most recent operation was an enabled tick in wrapped mode.
WrapTick == TickCompleted /\ c.feedbackWrapped

Min2(a, b) == IF a <= b THEN a ELSE b

\* The smallest magnitude among the three candidates.
MinMagnitude(k) ==
    Min2(Abs(RegErr(k)), Min2(Abs(AltErr1(k)), Abs(AltErr2(k))))

\* A controller in wrapped mode that has just sampled feedback fb.
WrapCase(t, fb, lo, hi) ==
    [ target |-> t, currentFeedback |-> fb, feedbackWrapLowerBound |-> lo,
      feedbackWrapUpperBound |-> hi, error |-> 0 ]

\* C6: the error of a wrapped tick has the smallest magnitude among the
\* direct, lower-bridge and upper-bridge candidates, the direct candidate
\* is the one stored when it is among the smallest, and target 350, feedback
\* 10, bounds [0, 360] give magnitude 20.
SmallestCandidateChosen ==
    /\ Abs(WrappedError(WrapCase(350, 10, 0, 360))) = 20
    /\ WrapTick =>
          /\ Abs(c.error) = MinMagnitude(c)
          /\ Abs(RegErr(c)) = MinMagnitude(c) => c.error = RegErr(c)

\* C7: the error of a wrapped tick is the signed value of one of the three
\* candidates.
SignedCandidateStored ==
    WrapTick => c.error \in {RegErr(c), AltErr1(c), AltErr2(c)}

\* C8: with wrap bounds L < U and target and feedback in [L, U], the error
\* of a wrapped tick is congruent to target - currentFeedback modulo U - L
\* and at most half of U - L in magnitude.
ShortestWayRound ==
    LET L == c.feedbackWrapLowerBound
        U == c.feedbackWrapUpperBound
    IN  ( /\ WrapTick
          /\ L < U
          /\ L <= c.target /\ c.target <= U
          /\ L <= c.currentFeedback /\ c.currentFeedback <= U ) =>
            /\ (c.error - RegErr(c)) % (U - L) = 0
            /\ 2 * Abs(c.error) <= U - L

---------------------------------------------------------------------------
(* The integral limit and the constructor. *)

\* C11: maxCumulation starts at 30000 and stays above 1; it changes only in
\* a setMaxIntegralCumulation(m) with |m| > 1, which sets it to |m|, and a
\* setMaxIntegralCumulation(m) with |m| <= 1 leaves it as it was.
MaxCumulationAboveOne ==
    /\ c.maxCumulation = InitMaxCumulation
    /\ [][/\ c'.maxCumulation > 1
          /\ c'.maxCumulation # c.maxCumulation =>
                /\ op' = "configure"
                /\ \E m \in CumArgs :
                      Abs(m) > 1 /\ c'.maxCumulation = Abs(m)
          /\ \A m \in CumArgs :
                Returns(setMaxIntegralCumulation(c, m)) =>
                    c'.maxCumulation =
                        IF Abs(m) > 1 THEN Abs(m) ELSE c.maxCumulation]_vars

\* setMaxIntegralCumulation has set the limit to the smallest value it takes.
MaxCumulationSetWitness ==
    /\ op = "configure"
    /\ c.maxCumulation = 2

\* C12: the controller that createPIDController returns has target 0, is
\* enabled, has no input or output bounds, is not wrapped, has no time
\* source and has maxCumulation 30000.
ConstructedInitialized ==
    op = "createPIDController" =>
        /\ c.target = 0
        /\ c.enabled
        /\ ~c.inputBounded
        /\ ~c.outputBounded
        /\ ~c.feedbackWrapped
        /\ ~c.timeFunctionRegistered
        /\ c.maxCumulation = InitMaxCumulation

---------------------------------------------------------------------------
(* A purely proportional controller: gains p = 1, i = 0, d = 0, with a     *)
(* target that the host moves.                                             *)

ProportionalTargets == {-1, 0, 2}

InitProportional ==
    \E mem \in UninitMemory : Created(createPIDController(GainDen, 0, 0, mem))

NextProportional ==
    \/ TickDisabled
    \/ TickUntimed(Feedbacks)
    \/ SetEnabled
    \/ SetMaxIntegralCumulation
    \/ \E t \in ProportionalTargets : Returns(setTarget(c, t))

SpecProportional == InitProportional /\ [][NextProportional]_vars

\* The outputs of the ticks of controller k on the feedbacks fbs, in order.
RECURSIVE TickOutputs(_, _)
TickOutputs(k, fbs) ==
    IF fbs = <<>>
    THEN <<>>
    ELSE LET k1 == UntimedTick(k, Head(fbs))
         IN  <<k1.output>> \o TickOutputs(k1, Tail(fbs))

\* C13: with gains 1, 0, 0, no time source, no bounds and no wrap, every
\* enabled tick gives the sink target - feedback, whatever the history; with
\* target 100 the feedbacks 0, 50, 100 give the outputs 100, 50, 0.
ProportionalOutput ==
    /\ TickOutputs(setTarget(createPIDController(GainDen, 0, 0, ZeroMemory),
                             100),
                   <<0, 50, 100>>) = <<100, 50, 0>>
    /\ ( /\ TickCompleted
         /\ c.p = GainDen /\ c.i = 0 /\ c.d = 0
         /\ ~c.timeFunctionRegistered
         /\ ~c.inputBounded
         /\ ~c.outputBounded
         /\ ~c.feedbackWrapped ) =>
            /\ SinkValue = c.target - c.currentFeedback
            /\ c.output = c.target - c.currentFeedback

\* A proportional tick whose integral and derivative are not zero.
ProportionalWitness ==
    /\ TickCompleted
    /\ c.p = GainDen /\ c.i = 0 /\ c.d = 0
    /\ ~c.feedbackWrapped
    /\ c.target # 0
    /\ c.integralCumulation # 0
    /\ c.cycleDerivative # 0
    /\ SinkValue = c.target - c.currentFeedback
    /\ SinkValue # 0

---------------------------------------------------------------------------
(* Ticks on the target, and the history across a disable and enable.       *)

\* C14: an enabled tick whose sampled feedback equals the target, made with
\* lastError = 0 and integralCumulation = 0, leaves output = 0 (read with
\* output bounds, when set, that contain 0).
ZeroErrorZeroOutput ==
    [][( /\ op' = "tick"
         /\ c.enabled
         /\ ~halted'
         /\ c.lastError = 0
         /\ c.integralCumulation = 0
         /\ c'.currentFeedback = c.target
         /\ c.outputBounded =>
               c.outputLowerBound <= 0 /\ 0 <= c.outputUpperBound ) =>
            c'.output = 0]_vars

\* x held within -m .. m.
Limit(x, m) == IF x > m THEN m ELSE IF x < -m THEN -m ELSE x

\* C15: enabling a disabled controller changes only the enabled flag, so
\* lastError, lastFeedback and lastTime are kept and integralCumulation and
\* output stay 0; an enabled tick that runs to its end takes its integral
\* step and its derivative from the lastError (and, with a time source, the
\* lastTime) it finds.
ReenableKeepsHistory ==
    [][/\ (op' = "configure" /\ ~c.enabled /\ c'.enabled) =>
             /\ c' = [c EXCEPT !.enabled = TRUE]
             /\ c'.lastError = c.lastError
             /\ c'.lastFeedback = c.lastFeedback
             /\ c'.lastTime = c.lastTime
             /\ c'.integralCumulation = 0
             /\ c'.output = 0
       /\ (op' = "tick" /\ c.enabled /\ ~halted'
             /\ ~c.timeFunctionRegistered) =>
             /\ c'.cycleDerivative = c'.error - c.lastError
             /\ c'.integralCumulation =
                    Limit(c.integralCumulation + c'.error, c.maxCumulation)
       /\ (op' = "tick" /\ c.enabled /\ ~halted'
             /\ c.timeFunctionRegistered) =>
             LET deltaTime == c'.currentTime - c.lastTime
             IN  /\ c'.integralCumulation =
                        Limit(c.integralCumulation
                                + (c.lastError + TruncDiv(c'.error, 2))
                                    * deltaTime,
                              c.maxCumulation)
                 /\ deltaTime # 0 =>
                        c'.cycleDerivative =
                            TruncDiv(c'.error - c.lastError, deltaTime)]_vars

\* A controller with a time source and a history of errors and times that
\* is enabled again, with integral and output still 0.
ReenabledWitness ==
    /\ op = "configure"
    /\ c.enabled
    /\ c.timeFunctionRegistered
    /\ c.integralCumulation = 0
    /\ c.output = 0
    /\ c.lastError # 0
    /\ c.lastFeedback # 0
    /\ c.lastTime # 0

---------------------------------------------------------------------------
(* The conversion of the weighted sum to the integer output.               *)

\* GainDen times the sum error*p + integralCumulation*i + cycleDerivative*d.
ScaledSum(k) ==
    k.error * k.p + k.integralCumulation * k.i + k.cycleDerivative * k.d

\* A controller with gain p = 1/2 only, at the error e.
HalfGainCase(e) ==
    [ error |-> e, p |-> 1, integralCumulation |-> 0, i |-> 0,
      cycleDerivative |-> 0, d |-> 0 ]

---------------------------------------------------------------------------
(* Construction when the allocation may fail.                              *)

\* malloc returned NULL: the constructor assigns the fields k through the
\* null pointer; the write either traps or lands and the call goes on.
AllocationFailed(k) ==
    /\ c = k
    /\ op = "createPIDController"
    /\ calls = <<>>
    /\ divByZero = FALSE
    /\ halted \in BOOLEAN
    /\ nullWrite = TRUE

InitAlloc ==
    \E g \in GainTriples, mem \in UninitMemory :
        LET k == createPIDController(g[1], g[2], g[3], mem)
        IN  Created(k) \/ AllocationFailed(k)

NextAlloc ==
    \/ TickDisabled
    \/ TickUntimed(Feedbacks)
    \/ SetEnabled
    \/ SetMaxIntegralCumulation

SpecAlloc == InitAlloc /\ [][NextAlloc]_vars

\* C17: when the record cannot be allocated createPIDController makes no
\* write through the null pointer (it reports the failure instead).
NoWriteThroughNull == ~nullWrite

---------------------------------------------------------------------------
(* The callbacks of a tick, the disabled controller, and the wrapped       *)
(* selection.                                                              *)

\* C18: every enabled tick calls the feedback source, then the time source
\* exactly when one is registered, then the output sink, once each; the sink
\* receives the stored output, and lastError = error and lastFeedback =
\* currentFeedback when tick returns.
CallbacksInOrder ==
    [][(op' = "tick" /\ c.enabled) =>
          /\ calls' =
               IF c.timeFunctionRegistered
               THEN << <<"pidSource">>, <<"getSystemTime">>,
                       <<"pidOutput", c'.output>> >>
               ELSE << <<"pidSource">>, <<"pidOutput", c'.output>> >>
          /\ c'.lastError = c'.error
          /\ c'.lastFeedback = c'.currentFeedback]_vars

\* C19: in every reachable state a disabled controller has output = 0 and
\* integralCumulation = 0.
DisabledIsZero ==
    ~c.enabled => (c.output = 0 /\ c.integralCumulation = 0)

\* A disabled controller that was configured and had ticked to a nonzero
\* derivative before.
DisabledZeroWitness ==
    /\ ~c.enabled
    /\ c.outputBounded
    /\ c.inputBounded
    /\ c.timeFunctionRegistered
    /\ c.cycleDerivative # 0
    /\ c.lastFeedback # 0
    /\ c.output = 0
    /\ c.integralCumulation = 0

\* C20: in wrapped mode an enabled tick always assigns error: whatever error
\* the previous tick left, the selection on this tick's target, feedback and
\* wrap bounds takes a branch and yields the error that is stored.
ErrorAssignedEveryTick ==
    WrapTick =>
        /\ \A e \in {c.error - 1, c.error + 1} :
               WrappedError([c EXCEPT !.error = e]) = c.error
        /\ c.error \in {RegErr(c), Abs(AltErr1(c)), Abs(AltErr2(c))}

\* A wrapped tick in which the first branch fired only because regErr is
\* compared with its sign: |regErr| is larger than |altErr2|.
SignedBranchWitness ==
    /\ WrapTick
    /\ RegErr(c) < 0
    /\ Abs(RegErr(c)) > Abs(AltErr2(c))
    /\ Abs(RegErr(c)) <= Abs(AltErr1(c))
    /\ c.error = RegErr(c)

====
